---------------------------- MODULE Spec2Model ----------------------------
(***************************************************************************)
(* A model of models/transformer_model.py: the sinusoidal positional      *)
(* table, the causally masked encoder, the fusion head with its clamped   *)
(* output, and the loss dispatch of the Transformer length-of-stay model. *)
(*                                                                         *)
(* Tensors are functions over 0-based indices, as in the source.  Reals   *)
(* are fixed-point integers counting units of 1/Q (Q = 48, the            *)
(* denominator of the floor of the output clamp), so that 1/48 is 1 and   *)
(* 100 is 4800.  Weights are whole numbers, so a linear map of            *)
(* fixed-point activations needs no rescaling.                            *)
(***************************************************************************)
EXTENDS Integers, Sequences, FiniteSets, TLC

VARIABLES
  \* PositionalEncoding on its own
  pe,          \* the registered buffer: [st, d, len, val]
  posIn,       \* the tensor passed to the last PositionalEncoding.forward
  posX,        \* the caller's tensor object after that call
  posOut,      \* what that call returned: [st, val]
  posCalls,    \* calls made so far
  \* Transformer.loss
  lossArgs,    \* the arguments of the last call
  lossOut,     \* its outcome: [st, val]
  lossShadow,  \* the same call with the masked-out entries of y_hat, y altered
  \* Transformer construction and forward
  pc,          \* position in __init__/forward
  cfg,         \* the config and the layers __init__ selected
  inp,         \* the batch of the current forward call (and its twin)
  act,         \* the activations after the last stage, for batch and twin
  attn,        \* the projections and weights of the current encoder layer
  mask,        \* the attention mask of the current call
  layer,       \* encoder layers already applied
  head,        \* the fusion head's intermediate tensors
  out          \* the outcome of forward: [st, val, twin]

posVars  == <<pe, posIn, posX, posOut, posCalls>>
lossVars == <<lossArgs, lossOut, lossShadow>>
fwdVars  == <<pc, cfg, inp, act, attn, mask, layer, head, out>>
vars     == <<posVars, lossVars, fwdVars>>

-----------------------------------------------------------------------------
(* Bounds of the model *)

MaxD == 4         \* d_model ranges over 1..MaxD in the positional-table runs
MaxLen == 3       \* max_len ranges over 1..MaxLen there
MaxCalls == 2     \* PositionalEncoding.forward calls per run
MaxLossB == 2     \* sequences per batch in the loss runs
MaxLossT == 2     \* retained timesteps per sequence in the loss runs
MaxB == 2         \* batch sizes 1..MaxB
MaxT == 7         \* padded lengths 1..MaxT (and DefaultMaxLen + 1)

\* the seeds input tensors are generated from
Seeds == {0, 1}

(* Program constants *)

Q == 48                 \* fixed-point denominator: hardtanh min_val = 1/48
DefaultMaxLen == 336    \* max_len = 14*24
NegInf == -999999       \* stands for float('-inf')
Cut == 5                \* the model is only valid from 5 hours onwards

-----------------------------------------------------------------------------
(* Numeric helpers *)

Range(n) == 0 .. (n - 1)

\* the function f itself, its values computed once and kept
Once(f) == f @@ <<>>

Min(a, b) == IF a < b THEN a ELSE b

Max(a, b) == IF a > b THEN a ELSE b

RECURSIVE SumTo(_, _)
\* sum of f[0] .. f[n-1]
SumTo(f, n) == IF n = 0 THEN 0 ELSE SumTo(f, n - 1) + f[n - 1]

\* 10^6 * exp(k * (-ln(10000) / d)) for the even k below d, d in 1..8
DivTermTable ==
  <<
      <<1000000>>,
      <<1000000>>,
      <<1000000, 2154>>,
      <<1000000, 10000>>,
      <<1000000, 25119, 631>>,
      <<1000000, 46416, 2154>>,
      <<1000000, 71969, 5179, 373>>,
      <<1000000, 100000, 10000, 1000>>
  >>

\* torch.exp(torch.arange(0, d_model, 2) * (-math.log(10000.0) / d_model)),
\* entry i (for channel pair 2i, 2i+1), in millionths
DivTerm(i, d) == DivTermTable[d][i + 1]

\* sin of an angle given in milliradians, in units of 1/Q (Bhaskara I's
\* rational approximation on [0, pi], odd about pi)
SinQ(mrad) ==
  LET x == mrad % 6283
      h == IF x < 3142 THEN x ELSE x - 3142
      p == (h * (3142 - h)) \div 1000
      s == (16 * Q * p) \div (49348 - 4 * p)
  IN  IF x < 3142 THEN s ELSE -s

\* cos(x) = sin(x + pi/2)
CosQ(mrad) == SinQ(mrad + 1571)

\* position * div_term in milliradians
Angle(pos, i, d) == (pos * DivTerm(i, d)) \div 1000

-----------------------------------------------------------------------------
(* PositionalEncoding *)

\* number of columns of pe[:, start::2] for a table d columns wide
StridedCols(start, d) == IF d <= start THEN 0 ELSE (d - start + 1) \div 2

\* a copy of src into a view with dstCols columns broadcasts when the widths
\* agree or src has a single column
BroadcastsTo(srcCols, dstCols) == srcCols = dstCols \/ srcCols = 1

\* pe[:, start::2] = src, on a max_len x d table; src is max_len x srcCols
SliceAssign(tab, start, d, src, srcCols) ==
  [pos \in DOMAIN tab |->
     [c \in Range(d) |->
        IF c >= start /\ (c - start) % 2 = 0
        THEN src[pos][IF srcCols = 1 THEN 0 ELSE (c - start) \div 2]
        ELSE tab[pos][c]]]

\* pe.unsqueeze(0).permute(0, 2, 1): max_len x d_model to 1 x d_model x max_len
UnsqueezePermute(tab, d, len) ==
  [z \in Range(1) |-> [c \in Range(d) |-> [pos \in Range(len) |-> tab[pos][c]]]]

NoTable == [st |-> "unbuilt", d |-> 0, len |-> 0, val |-> <<>>]

\* PositionalEncoding.__init__(d_model, max_len)
PositionalEncodingInit(d, len) ==
  LET half  == (d + 1) \div 2    \* len(torch.arange(0, d_model, 2))
      zeros == [pos \in Range(len) |-> [c \in Range(d) |-> 0]]
      sinM  == [pos \in Range(len) |-> [i \in Range(half) |-> SinQ(Angle(pos, i, d))]]
      cosM  == [pos \in Range(len) |-> [i \in Range(half) |-> CosQ(Angle(pos, i, d))]]
      pe1   == SliceAssign(zeros, 0, d, sinM, half)
      pe2   == SliceAssign(pe1, 1, d, cosM, half)
  IN  IF /\ BroadcastsTo(half, StridedCols(0, d))
         /\ BroadcastsTo(half, StridedCols(1, d))
      THEN [st |-> "ok", d |-> d, len |-> len, val |-> UnsqueezePermute(pe2, d, len)]
      ELSE [st |-> "error", d |-> d, len |-> len, val |-> <<>>]

\* number of columns of self.pe[:, :, :T]
SliceLen(buf, T) == Min(T, buf.len)

\* an addition that adds the positional signal to the timesteps the table
\* covers and passes the others through
PosAddTruncating(X, B, C, T, buf) ==
  LET n == SliceLen(buf, T)
  IN  [st |-> "ok",
       val |-> [b \in Range(B) |-> [c \in Range(C) |-> [t \in Range(T) |->
                 IF t < n THEN X[b][c][t] + buf.val[0][c][t] ELSE X[b][c][t]]]]]

\* X + self.pe[:, :, :X.size(2)] for X of shape B x C x T
PosAdd(X, B, C, T, buf) ==
  LET n == SliceLen(buf, T)
  IN  IF (C = buf.d \/ C = 1 \/ buf.d = 1) /\ (n = T \/ n = 1 \/ T = 1)
      THEN [st |-> "ok",
            val |-> [b \in Range(B) |-> [c \in Range(Max(C, buf.d)) |->
                      [t \in Range(Max(T, n)) |->
                         X[b][IF C = 1 THEN 0 ELSE c][IF T = 1 THEN 0 ELSE t]
                         + buf.val[0][IF buf.d = 1 THEN 0 ELSE c][IF n = 1 THEN 0 ELSE t]]]]]
      ELSE [st |-> "error", val |-> <<>>]

\* the caller's tensor after PositionalEncoding.forward in-place (X += ...)
CallerTensorInPlace(X, B, C, T, buf) ==
  LET r == PosAdd(X, B, C, T, buf) IN IF r.st = "ok" THEN r.val ELSE X

\* the caller's tensor after PositionalEncoding.forward: X = X + ... rebinds
\* the local name to a new tensor
CallerTensorAfter(X, B, C, T, buf) == X

\* an input tensor of shape B x C x T
GenX(B, C, T, seed) ==
  [b \in Range(B) |-> [c \in Range(C) |-> [t \in Range(T) |->
     ((seed + 7 * b + 3 * c + 5 * t) % 11) * (Q \div 4)]]]

-----------------------------------------------------------------------------
(* Transformer.loss *)

\* floor(Q * exp(r / Q)) for r = ExpLo .. ExpHi: the r whose exponential
\* lies in [1/48, 100]
ExpTable ==
  <<
      1, 1, 1, 1, 1, 1, 1, 1, 1, 1, 1, 1, 1, 1, 1, 1,
      1, 1, 1, 1, 1, 1, 1, 1, 1, 1, 1, 1, 1, 1, 1, 1,
      1, 2, 2, 2, 2, 2, 2, 2, 2, 2, 2, 2, 2, 2, 2, 2,
      2, 2, 2, 2, 3, 3, 3, 3, 3, 3, 3, 3, 3, 3, 3, 3,
      3, 3, 4, 4, 4, 4, 4, 4, 4, 4, 4, 4, 4, 5, 5, 5,
      5, 5, 5, 5, 5, 5, 6, 6, 6, 6, 6, 6, 6, 7, 7, 7,
      7, 7, 7, 8, 8, 8, 8, 8, 8, 9, 9, 9, 9, 9, 10, 10,
      10, 10, 10, 11, 11, 11, 11, 12, 12, 12, 12, 13, 13, 13, 14, 14,
      14, 14, 15, 15, 15, 16, 16, 16, 17, 17, 18, 18, 18, 19, 19, 20,
      20, 20, 21, 21, 22, 22, 23, 23, 24, 24, 25, 25, 26, 26, 27, 27,
      28, 29, 29, 30, 30, 31, 32, 32, 33, 34, 35, 35, 36, 37, 38, 38,
      39, 40, 41, 42, 43, 44, 45, 46, 47, 48, 49, 50, 51, 52, 53, 54,
      55, 56, 57, 59, 60, 61, 62, 64, 65, 66, 68, 69, 71, 72, 74, 75,
      77, 79, 80, 82, 84, 86, 87, 89, 91, 93, 95, 97, 99, 101, 103, 105,
      108, 110, 112, 115, 117, 120, 122, 125, 127, 130, 133, 136, 138, 141, 144, 147,
      150, 154, 157, 160, 164, 167, 171, 174, 178, 182, 185, 189, 193, 197, 202, 206,
      210, 215, 219, 224, 228, 233, 238, 243, 248, 254, 259, 264, 270, 276, 282, 287,
      294, 300, 306, 312, 319, 326, 333, 340, 347, 354, 362, 369, 377, 385, 393, 401,
      410, 418, 427, 436, 446, 455, 464, 474, 484, 494, 505, 516, 526, 538, 549, 560,
      572, 584, 597, 609, 622, 635, 648, 662, 676, 690, 705, 720, 735, 750, 766, 782,
      799, 816, 833, 850, 868, 887, 905, 924, 944, 964, 984, 1005, 1026, 1047, 1069, 1092,
      1115, 1138, 1162, 1187, 1212, 1237, 1263, 1290, 1317, 1345, 1373, 1402, 1432, 1462, 1493, 1524,
      1556, 1589, 1623, 1657, 1692, 1727, 1764, 1801, 1839, 1877, 1917, 1957, 1998, 2041, 2083, 2127,
      2172, 2218, 2265, 2312, 2361, 2411, 2461, 2513, 2566, 2620, 2675, 2732, 2789, 2848, 2908, 2969,
      3032, 3096, 3161, 3227, 3295, 3365, 3435, 3508, 3582, 3657, 3734, 3813, 3893, 3975, 4059, 4144,
      4231, 4320, 4411, 4504, 4599, 4696, 4795
  >>

ExpLo == -185

ExpHi == 221

\* torch.exp on a fixed-point value; below the table it rounds to 0, above
\* it the result exceeds every bound the model compares it with
ExpQ(r) ==
  IF r < ExpLo THEN 0
  ELSE IF r > ExpHi THEN 100 * Q + (r - ExpHi)
  ELSE ExpTable[r - ExpLo + 1]

\* natural logarithm of a fixed-point value v >= 1 (rounded down): the
\* inverse of ExpQ
RECURSIVE LnSearch(_, _, _)
LnSearch(v, lo, hi) ==
  IF lo = hi THEN lo
  ELSE LET mid == (lo + hi + 1) \div 2
       IN  IF ExpQ(mid) <= v THEN LnSearch(v, mid, hi) ELSE LnSearch(v, lo, mid - 1)

LnQ(v) == LnSearch(v, ExpLo, ExpHi + 1)

\* a rational a/b with b > 0
Rat(a, b) == <<a, b>>

RatEq(r, s) == r[1] * s[2] = s[1] * r[2]

RatAdd(r, s) == <<r[1] * s[2] + s[1] * r[2], r[2] * s[2]>>

RECURSIVE RatSumTo(_, _)
RatSumTo(f, n) == IF n = 0 THEN <<0, 1>> ELSE RatAdd(RatSumTo(f, n - 1), f[n - 1])

\* the per-element error of the two metrics
ElemErr(kind, yh, y) ==
  IF kind = "mse" THEN (yh - y) * (yh - y)
  ELSE LET d == LnQ(yh) - LnQ(y) IN d * d

\* the masked metric, with its two reduction policies
MaskedLoss(kind, y_hat, y, bmask, seq_lengths, sum_losses) ==
  LET B    == Cardinality(DOMAIN y_hat)
      T    == Cardinality(DOMAIN y_hat[0])
      err  == [b \in Range(B) |-> [t \in Range(T) |->
                 IF bmask.val[b][t] THEN ElemErr(kind, y_hat[b][t], y[b][t]) ELSE 0]]
      rowS == [b \in Range(B) |-> SumTo(err[b], T)]
      rowN == [b \in Range(B) |->
                 SumTo([t \in Range(T) |-> IF bmask.val[b][t] THEN 1 ELSE 0], T)]
  IN  IF sum_losses
      THEN Rat(SumTo(rowS, B), SumTo(rowN, B))
      ELSE LET m == RatSumTo([b \in Range(B) |-> Rat(rowS[b], seq_lengths[b])], B)
           IN  Rat(m[1], m[2] * B)

MSLELoss(y_hat, y, bmask, seq_lengths, sum_losses) ==
  MaskedLoss("msle", y_hat, y, bmask, seq_lengths, sum_losses)

MSELoss(y_hat, y, bmask, seq_lengths, sum_losses) ==
  MaskedLoss("mse", y_hat, y, bmask, seq_lengths, sum_losses)

\* mask.type(bool_type): nonzero entries become True
MaskType(m, device) ==
  [type |-> IF device = "cuda" THEN "torch.cuda.BoolTensor" ELSE "torch.BoolTensor",
   val  |-> [b \in DOMAIN m |-> [t \in DOMAIN m[b] |-> m[b][t] # 0]]]

Unbound == [bound |-> FALSE, val |-> <<0, 1>>]

Bound(v) == [bound |-> TRUE, val |-> v]

\* return of a local: UnboundLocalError when no branch assigned it
ReturnLocal(l) ==
  IF l.bound THEN [st |-> "returned", val |-> l.val]
  ELSE [st |-> "UnboundLocalError", val |-> <<0, 1>>]

\* the dispatch with the two metrics exchanged
TransformerLossSwapped(y_hat, y, m, seq_lengths, device, sum_losses, loss_type) ==
  ReturnLocal(
    IF loss_type = "msle"
    THEN Bound(MSELoss(y_hat, y, MaskType(m, device), seq_lengths, sum_losses))
    ELSE IF loss_type = "mse"
    THEN Bound(MSLELoss(y_hat, y, MaskType(m, device), seq_lengths, sum_losses))
    ELSE Unbound)

\* the dispatch calling the metrics without sum_losses (their default, False)
TransformerLossNoSum(y_hat, y, m, seq_lengths, device, sum_losses, loss_type) ==
  ReturnLocal(
    IF loss_type = "msle"
    THEN Bound(MSLELoss(y_hat, y, MaskType(m, device), seq_lengths, FALSE))
    ELSE IF loss_type = "mse"
    THEN Bound(MSELoss(y_hat, y, MaskType(m, device), seq_lengths, FALSE))
    ELSE Unbound)

\* Transformer.loss
TransformerLoss(y_hat, y, m, seq_lengths, device, sum_losses, loss_type) ==
  ReturnLocal(
    IF loss_type = "msle"
    THEN Bound(MSLELoss(y_hat, y, MaskType(m, device), seq_lengths, sum_losses))
    ELSE IF loss_type = "mse"
    THEN Bound(MSELoss(y_hat, y, MaskType(m, device), seq_lengths, sum_losses))
    ELSE Unbound)

LossTypes == {"mse", "msle", "rmse"}

\* durations of 1/48, 1/2, 1 and 2 days
YVals == <<1, 24, 48, 96>>

\* seeds 0..3 give tensors of mixed values, seeds 4 and 5 constant ones
YSeeds == 0 .. 5

\* predictions and targets of a loss call, B x T
GenY(B, T, seed) ==
  [b \in Range(B) |-> [t \in Range(T) |->
     IF seed >= 4 THEN YVals[seed - 2] ELSE YVals[((seed + b + 2 * t) % 4) + 1]]]

\* the validity mask of sequences of the given lengths, as a float tensor
PrefixMask(B, T, lens) ==
  [b \in Range(B) |-> [t \in Range(T) |-> IF t < lens[b] THEN 1 ELSE 0]]

\* a tensor with its masked-out entries replaced
Scramble(x, m) ==
  [b \in DOMAIN x |-> [t \in DOMAIN x[b] |-> IF m[b][t] # 0 THEN x[b][t] ELSE YVals[4]]]

NoLossArgs == [y_hat |-> <<>>, y |-> <<>>, mask |-> <<>>, seq_lengths |-> <<>>,
               device |-> "cpu", sum_losses |-> FALSE, loss_type |-> "none"]

NoLossOut == [st |-> "idle", val |-> <<0, 1>>]

LossIdle == lossArgs = NoLossArgs /\ lossOut = NoLossOut /\ lossShadow = NoLossOut

\* one call of Transformer.loss
Loss(B, T, lens, sh, sy, device, sum_losses, loss_type) ==
  LET y_hat == GenY(B, T, sh)
      y     == GenY(B, T, sy)
      m     == PrefixMask(B, T, lens)
  IN  /\ lossArgs' = [y_hat |-> y_hat, y |-> y, mask |-> m, seq_lengths |-> lens,
                      device |-> device, sum_losses |-> sum_losses,
                      loss_type |-> loss_type]
      /\ lossOut' = TransformerLoss(y_hat, y, m, lens, device, sum_losses, loss_type)
      /\ lossShadow' = TransformerLoss(Scramble(y_hat, m), Scramble(y, m), m, lens,
                                       device, sum_losses, loss_type)

LossCall ==
  /\ lossOut.st = "idle"
  /\ \E B \in 1 .. MaxLossB, T \in 1 .. MaxLossT, sh \in YSeeds, sy \in YSeeds,
           device \in {"cpu", "cuda"}, sum_losses \in BOOLEAN, loss_type \in LossTypes :
      \E lens \in [Range(B) -> 1 .. T] :
        Loss(B, T, lens, sh, sy, device, sum_losses, loss_type)

\* the caller takes the outcome; the next call starts afresh
LossReturn ==
  /\ lossOut.st # "idle"
  /\ lossArgs' = NoLossArgs /\ lossOut' = NoLossOut /\ lossShadow' = NoLossOut

-----------------------------------------------------------------------------
(* PositionalEncoding as a state machine *)

NoOut == [st |-> "idle", val |-> <<>>]

PosIdle == pe = NoTable /\ posIn = <<>> /\ posX = <<>> /\ posOut = NoOut /\ posCalls = 0

\* PositionalEncoding(d_model, max_len)
PEConstruct ==
  /\ pe.st = "unbuilt"
  /\ \E d \in 1 .. MaxD, len \in 1 .. MaxLen : pe' = PositionalEncodingInit(d, len)
  /\ UNCHANGED <<posIn, posX, posOut, posCalls>>

\* PositionalEncoding.forward(X), X of shape B x d_model x T
PEForward ==
  /\ pe.st = "ok"
  /\ posCalls < MaxCalls
  /\ \E B \in 1 .. MaxB, T \in 1 .. (MaxLen + 1), seed \in Seeds :
       LET X == GenX(B, pe.d, T, seed)
       IN  /\ posIn' = X
           /\ posOut' = PosAdd(X, B, pe.d, T, pe)
           /\ posX' = CallerTensorAfter(X, B, pe.d, T, pe)
  /\ posCalls' = posCalls + 1
  /\ UNCHANGED pe

-----------------------------------------------------------------------------
(* Layers used by Transformer.forward *)

RECURSIVE SqrtSearch(_, _, _)
SqrtSearch(n, lo, hi) ==
  IF lo = hi THEN lo
  ELSE LET mid == (lo + hi + 1) \div 2
       IN  IF mid * mid <= n THEN SqrtSearch(n, mid, hi) ELSE SqrtSearch(n, lo, mid - 1)

\* floor of the square root of n, 0 <= n < 2^30
ISqrt(n) == SqrtSearch(n, 0, 32767)

\* math.sqrt(n) as a fixed-point value
SqrtQ(n) == ISqrt(Q * Q * n)

\* the product and the quotient of a fixed-point v and a fixed-point root
MulQ(v, root) == (v * root) \div Q

DivQ(v, root) == (v * Q) \div root

ReLU(v) == IF v > 0 THEN v ELSE 0

\* the weights of the layers: whole numbers fixed at construction; those of
\* the final projection (layer 9) are larger, so that its raw scores fall
\* below, inside and above the range of the output clamp
Weight(layerId, o, i) ==
  (IF layerId = 9 THEN 4 ELSE 1) * (((7 * layerId + 5 * o + 3 * i + o * i) % 4) - 1)

\* nn.Dropout (rate 1/2) on the element with flat index idx at the given
\* site: the identity in evaluation mode; in training mode draw 0 keeps
\* every element and the other draws zero a third of them and double the rest
Dropout(v, idx, site, training, draw) ==
  IF ~training \/ draw = 0 THEN v
  ELSE IF (idx + site + draw) % 3 = 0 THEN 0 ELSE 2 * v

\* nn.Linear / nn.Conv1d(kernel_size=1) on one position: row x of width n
\* to output feature o
Linear(layerId, x, n, o, bias) ==
  SumTo([i \in Range(n) |-> Weight(layerId, o, i) * x[i]], n) + bias

\* torch.triu: the entries on and above the diagonal
Triu(m, size) ==
  [i \in Range(size) |-> [j \in Range(size) |-> IF j >= i THEN m[i][j] ELSE 0]]

Transpose(m, size) == [i \in Range(size) |-> [j \in Range(size) |-> m[j][i]]]

\* mask.float().masked_fill(mask == 0, -inf).masked_fill(mask == 1, 0.0)
MaskedFill(bm, size) ==
  LET f  == [i \in Range(size) |-> [j \in Range(size) |-> IF bm[i][j] THEN 1 ELSE 0]]
      f1 == [i \in Range(size) |-> [j \in Range(size) |->
               IF bm[i][j] = FALSE THEN NegInf ELSE f[i][j]]]
  IN  [i \in Range(size) |-> [j \in Range(size) |->
         IF bm[i][j] = TRUE THEN 0 ELSE f1[i][j]]]

\* the mask without the transpose: keys at or after the query
CausalMaskUntransposed(size) ==
  LET ones == [i \in Range(size) |-> [j \in Range(size) |-> 1]]
      tri  == Triu(ones, size)
  IN  MaskedFill([i \in Range(size) |-> [j \in Range(size) |-> tri[i][j] = 1]], size)

\* TransformerEncoder._causal_mask(size)
CausalMask(size) ==
  LET ones == [i \in Range(size) |-> [j \in Range(size) |-> 1]]
      tri  == Triu(ones, size)
      bm   == Transpose([i \in Range(size) |-> [j \in Range(size) |-> tri[i][j] = 1]],
                        size)
  IN  MaskedFill(bm, size)

RECURSIVE MaxTo(_, _)
\* the greatest of f[0] .. f[n-1], n >= 1
MaxTo(f, n) == IF n = 1 THEN f[0] ELSE Max(MaxTo(f, n - 1), f[n - 1])

\* normalisation of one row of n values to zero mean and unit variance
Normalise(row, n, mean, var) ==
  [i \in Range(n) |-> ((row[i] - mean) * Q) \div Max(ISqrt(var), 1)]

RowMean(row, n) == SumTo(row, n) \div n

RowVar(row, n) ==
  LET m == RowMean(row, n)
  IN  SumTo([i \in Range(n) |-> (row[i] - m) * (row[i] - m)], n) \div n

\* nn.LayerNorm over the d_model features of one position
LayerNorm(row, n) ==
  LET r == Once(row)
      m == RowMean(r, n)
      v == RowVar(r, n)
  IN  Normalise(r, n, m, v)

\* self.input_embedding(X) * math.sqrt(self.d_model): B x C x T to B x d x T
Embed(X, B, C, T, d) ==
  LET root == SqrtQ(d)
  IN  [b \in Range(B) |-> [c \in Range(d) |-> [t \in Range(T) |->
         MulQ(Linear(0, [ch \in Range(C) |-> X[b][ch][t]], C, c, 0), root)]]]

\* X.permute(2, 0, 1): B x d x T to T x B x d
Permute201(X, B, d, T) ==
  [t \in Range(T) |-> [b \in Range(B) |-> [c \in Range(d) |-> X[b][c][t]]]]

\* X.permute(1, 2, 0): T x B x d to B x d x T
Permute120(Y, B, d, T) ==
  [b \in Range(B) |-> [c \in Range(d) |-> [t \in Range(T) |-> Y[t][b][c]]]]

\* the query, key and value projections of encoder layer l
InProj(src, T, B, d, l) ==
  LET proj(id) == [t \in Range(T) |-> [b \in Range(B) |-> [c \in Range(d) |->
                     Linear(id, src[t][b], d, c, 0)]]]
  IN  [q |-> proj(10 * l + 1), k |-> proj(10 * l + 2), v |-> proj(10 * l + 3)]

\* a score plus its mask entry; -inf absorbs
AddMask(s, m) == IF m = NegInf THEN NegInf ELSE s + m

\* the scaled, masked dot-product score of query i and key j in head h
Score(p, m, b, h, i, j, dh, root) ==
  AddMask(DivQ(SumTo([c \in Range(dh) |->
                  (p.q[i][b][h * dh + c] * p.k[j][b][h * dh + c]) \div Q], dh), root),
          m[i][j])

\* softmax over the keys, unnormalised: exp(score - row maximum), which is
\* exactly 0 on a masked key
AttnWeights(p, m, T, B, d, nh) ==
  LET dh   == d \div nh
      root == SqrtQ(dh)
  IN  [b \in Range(B) |-> [h \in Range(nh) |-> [i \in Range(T) |->
        LET row == Once([j \in Range(T) |-> Score(p, m, b, h, i, j, dh, root)])
            top == MaxTo(row, T)
        IN  [j \in Range(T) |->
               IF row[j] = NegInf \/ top = NegInf THEN 0 ELSE ExpQ(row[j] - top)]]]]

\* attention output, output projection, residual and first LayerNorm
Attend(src, p, w, T, B, d, nh, l, training, draw) ==
  LET dh  == d \div nh
      ctx(t, b) == Once([c \in Range(d) |->
                LET wr == w[b][c \div dh][t]
                    z  == SumTo(wr, T)
                IN  SumTo([j \in Range(T) |->
                             Dropout(wr[j], t * T + j, 10 * l + 1, training, draw)
                             * p.v[j][b][c]], T) \div Max(z, 1)])
  IN  [t \in Range(T) |-> [b \in Range(B) |->
         LET cx == ctx(t, b)
         IN  LayerNorm([c \in Range(d) |->
                          src[t][b][c]
                          + Dropout(Linear(10 * l + 4, cx, d, c, 0),
                                    (t * B + b) * d + c, 10 * l + 2, training, draw)], d)]]

\* feed-forward block, residual and second LayerNorm
FeedForward(x1, T, B, d, ff, l, training, draw) ==
  [t \in Range(T) |-> [b \in Range(B) |->
     LET hid == Once([u \in Range(ff) |->
                   Dropout(ReLU(Linear(10 * l + 5, x1[t][b], d, u, 0)),
                           (t * B + b) * ff + u, 10 * l + 3, training, draw)])
     IN  LayerNorm([c \in Range(d) |->
                      x1[t][b][c]
                      + Dropout(Linear(10 * l + 6, hid, ff, c, 0),
                                (t * B + b) * d + c, 10 * l + 4, training, draw)], d)]]

\* self.relu(self.trans_dropout(trans_output)), B x d x T
ReluDropout3(X, B, d, T, site, training, draw) ==
  [b \in Range(B) |-> [c \in Range(d) |-> [t \in Range(T) |->
     ReLU(Dropout(X[b][c][t], (b * d + c) * T + t, site, training, draw))]]]

\* batch normalisation of an N x n matrix in training mode: the statistics
\* of the batch, feature by feature
BatchStats(M, N, n) ==
  [f \in Range(n) |->
     LET col == Once([r \in Range(N) |-> M[r][f]])
     IN  [mean |-> RowMean(col, N), var |-> RowVar(col, N)]]

\* a normalisation stage on an N x n matrix: EmptyModule is the identity;
\* batch normalisation uses the batch statistics in training mode and
\* the running statistics in evaluation mode
NormStage(bn, M, N, n, training) ==
  IF bn.kind = "EmptyModule" THEN M
  ELSE LET st == IF training THEN BatchStats(M, N, n)
                 ELSE [f \in Range(n) |->
                         [mean |-> bn.running_mean[f], var |-> bn.running_var[f]]]
       IN  [r \in Range(N) |-> [f \in Range(n) |->
              ((M[r][f] - st[f].mean) * Q) \div Max(ISqrt(st[f].var), 1)]]

\* batch normalisation in training mode needs more than one row
NormFails(bn, N, training) == bn.kind # "EmptyModule" /\ training /\ N <= 1

\* the running statistics after a call, with the stage's momentum in
\* thousandths
NormUpdate(bn, M, N, n, training) ==
  IF bn.kind = "EmptyModule" \/ ~training THEN bn
  ELSE LET st == BatchStats(M, N, n)
       IN  [bn EXCEPT
              !.running_mean = [f \in Range(n) |->
                 ((1000 - bn.momentum) * bn.running_mean[f]
                  + bn.momentum * st[f].mean) \div 1000],
              !.running_var = [f \in Range(n) |->
                 ((1000 - bn.momentum) * bn.running_var[f]
                  + bn.momentum * ((st[f].var * N) \div Max(N - 1, 1))) \div 1000]]

\* x.repeat(n, 1): the whole matrix n times over
RepeatTiled(M, rows, n) == [r \in Range(rows * n) |-> M[r % rows]]

\* x.repeat_interleave(n, dim=0): each row n times in a row
RepeatInterleave(M, rows, n) == [r \in Range(rows * n) |-> M[r \div n]]

\* X[:, :, 5:]
SliceFrom(X, B, d, T, from) ==
  [b \in Range(B) |-> [c \in Range(d) |-> [k \in Range(T - from) |-> X[b][c][k + from]]]]

\* X.permute(0, 2, 1): B x d x K to B x K x d
Permute021(X, B, d, K) ==
  [b \in Range(B) |-> [k \in Range(K) |-> [c \in Range(d) |-> X[b][c][k]]]]

\* Y.contiguous().view(rows, -1) of a B x K x d tensor: row-major order kept
View2(Y, B, K, d, rows) ==
  LET cols == (B * K * d) \div rows
  IN  [r \in Range(rows) |-> [c \in Range(cols) |->
         LET idx == r * cols + c
         IN  Y[idx \div (K * d)][(idx \div d) % K][idx % d]]]

\* cat((a, b, c), dim=1) of matrices with the same rows
Cat3(a, na, b, nb, c, nc, rows) ==
  [r \in Range(rows) |-> [i \in Range(na + nb + nc) |->
     IF i < na THEN a[r][i]
     ELSE IF i < na + nb THEN b[r][i - na] ELSE c[r][i - na - nb]]]

\* M.view(B, K) of a (B*K) x 1 matrix
ViewBK(M, B, K) == [b \in Range(B) |-> [k \in Range(K) |-> M[b * K + k][0]]]

\* a clamp that rescales into the range instead of cutting
HardtanhSoft(v) == IF v < 1 THEN 1 ELSE IF v > 100 * Q THEN 100 * Q ELSE Max(v \div 2, 1)

\* nn.Hardtanh(min_val=1/48, max_val=100)
Hardtanh(v) == IF v < 1 THEN 1 ELSE IF v > 100 * Q THEN 100 * Q ELSE v

\* line 159-162: clamp the raw score, exponentiated first unless no_exp
OutputTransform(no_exp, raw) == IF no_exp THEN Hardtanh(raw) ELSE Hardtanh(ExpQ(raw))

-----------------------------------------------------------------------------
(* Transformer.__init__ *)

BatchnormChoices == {"none", "mybatchnorm", "default", "pointonly", "low_momentum", "bogus"}

\* the encoder depths explored
LayerCounts == {1, 2}

\* the dropout draws of a call in training mode; draw 0 drops nothing
Draws == {0, 1}

\* the sizes of the configurations explored
Sizes == [F |-> 1, D |-> 2, no_flat_features |-> 1, d_model |-> 4, n_heads |-> 2,
          feedforward_size |-> 2, diagnosis_size |-> 2, last_linear_size |-> 2]

EmptyModule == [kind |-> "EmptyModule", momentum |-> 0,
                running_mean |-> <<>>, running_var |-> <<>>]

\* MyBatchNorm1d(num_features, momentum): momentum in thousandths; running
\* mean 0 and running variance 1
MyBatchNorm1d(n, momentum) ==
  [kind |-> "MyBatchNorm1d", momentum |-> momentum,
   running_mean |-> [f \in Range(n) |-> 0], running_var |-> [f \in Range(n) |-> Q * Q]]

\* nn.BatchNorm1d(num_features): the library's default momentum, 0.1
BatchNorm1d(n) ==
  [kind |-> "BatchNorm1d", momentum |-> 100,
   running_mean |-> [f \in Range(n) |-> 0], running_var |-> [f \in Range(n) |-> Q * Q]]

\* self.momentum, in thousandths
Momentum(batchnorm) == IF batchnorm = "low_momentum" THEN 10 ELSE 100

\* the selection of bn_diagnosis_encoder with 'pointonly' in its first list
DiagnosisNormAlsoPointonly(batchnorm, n) ==
  IF batchnorm \in {"mybatchnorm", "pointonly", "low_momentum"}
  THEN MyBatchNorm1d(n, Momentum(batchnorm))
  ELSE IF batchnorm = "default" THEN BatchNorm1d(n)
  ELSE EmptyModule

\* self.bn_diagnosis_encoder
DiagnosisNorm(batchnorm, n) ==
  IF batchnorm \in {"mybatchnorm", "low_momentum"}
  THEN MyBatchNorm1d(n, Momentum(batchnorm))
  ELSE IF batchnorm = "default" THEN BatchNorm1d(n)
  ELSE EmptyModule

\* self.bn_point_last
PointNorm(batchnorm, n) ==
  IF batchnorm \in {"mybatchnorm", "pointonly", "low_momentum"}
  THEN MyBatchNorm1d(n, Momentum(batchnorm))
  ELSE IF batchnorm = "default" THEN BatchNorm1d(n)
  ELSE EmptyModule

\* Transformer(config, F, D, no_flat_features); a module starts in training
\* mode.  The positional buffer is a function of d_model and max_len alone and
\* is never written after construction, so the state keeps those two (and
\* whether construction succeeded) and Buffer gives the entries where read.
TransformerInit(batchnorm, no_exp, n_layers) ==
  [batchnorm |-> batchnorm, no_exp |-> no_exp, n_layers |-> n_layers,
   size |-> Sizes, training |-> TRUE,
   momentum |-> Momentum(batchnorm),
   pos |-> [PositionalEncodingInit(Sizes.d_model, DefaultMaxLen) EXCEPT !.val = <<>>],
   bn_diagnosis_encoder |-> DiagnosisNorm(batchnorm, Sizes.diagnosis_size),
   bn_point_last |-> PointNorm(batchnorm, Sizes.last_linear_size)]

Buffer(pos) == PositionalEncodingInit(pos.d, pos.len)

Construct ==
  /\ pc = "idle"
  /\ \E batchnorm \in BatchnormChoices, no_exp \in BOOLEAN, n_layers \in LayerCounts :
       cfg' = TransformerInit(batchnorm, no_exp, n_layers)
  /\ pc' = IF cfg'.pos.st = "ok" THEN "ready" ELSE "error"
  /\ UNCHANGED <<inp, act, attn, mask, layer, head, out>>

\* model.train() / model.eval(), toggled by the caller
SetMode ==
  /\ pc = "ready"
  /\ cfg' = [cfg EXCEPT !.training = ~cfg.training]
  /\ UNCHANGED <<pc, inp, act, attn, mask, layer, head, out>>

-----------------------------------------------------------------------------
(* Transformer.forward, stage by stage, on a batch and on its twin: the     *)
(* same batch with every timestep from tp on altered                        *)

\* the batch shapes <<B, T>> explored: every short one, and one a
\* timestep longer than the positional table
Shapes ==
  {<<B, T>> : B \in 1 .. MaxB, T \in 1 .. MaxT} \cup {<<1, DefaultMaxLen + 1>>}

\* an N x n matrix of inputs
GenM(N, n, seed) ==
  [r \in Range(N) |-> [i \in Range(n) |-> (((seed + 2 * r + i) % 5) + 1) * (Q \div 4)]]

\* X with the timesteps from tp on altered
Twin(X, tp) ==
  [b \in DOMAIN X |-> [c \in DOMAIN X[b] |-> [t \in DOMAIN X[b][c] |->
     IF t >= tp THEN X[b][c][t] + Q ELSE X[b][c][t]]]]

Channels == 2 * Sizes.F + 2

Fail(kind) == [st |-> "error", val |-> kind, twin |-> kind]

\* B, _, T = X.shape; self.input_embedding(X) * math.sqrt(self.d_model)
ForwardEmbed ==
  /\ pc = "ready"
  /\ \E shape \in Shapes, draw \in Draws :
       \E tp \in (IF shape[2] > MaxT THEN {shape[2]} ELSE Cut .. Max(shape[2], Cut)) :
         /\ cfg.training \/ draw = 0
         /\ LET B    == shape[1]
                T    == shape[2]
                seed == 0
                X    == GenX(B, Channels, T, seed)
            IN  /\ inp' = [X |-> X, Xtw |-> Twin(X, tp),
                           diagnoses |-> GenM(B, Sizes.D, seed),
                           flat |-> GenM(B, Sizes.no_flat_features, seed + 1),
                           B |-> B, T |-> T, tp |-> tp, draw |-> draw]
                /\ act' = [x  |-> Embed(X, B, Channels, T, Sizes.d_model),
                           tw |-> Embed(Twin(X, tp), B, Channels, T, Sizes.d_model)]
  /\ pc' = "embedded"
  /\ UNCHANGED <<cfg, attn, mask, layer, head, out>>

\* X = self.pos_encoder(X); X.permute(2, 0, 1); self._causal_mask(size=T)
ForwardPos ==
  /\ pc = "embedded"
  /\ LET B  == inp.B
         T  == inp.T
         d  == Sizes.d_model
         px == PosAdd(act.x, B, d, T, Buffer(cfg.pos))
         pt == PosAdd(act.tw, B, d, T, Buffer(cfg.pos))
     IN  IF px.st = "ok"
         THEN /\ act' = [x |-> Permute201(px.val, B, d, T),
                         tw |-> Permute201(pt.val, B, d, T)]
              /\ mask' = CausalMask(T)
              /\ pc' = "positioned"
              /\ out' = out
         ELSE /\ pc' = "error"
              /\ out' = Fail("size mismatch")
              /\ UNCHANGED <<act, mask>>
  /\ layer' = 0
  /\ UNCHANGED <<cfg, inp, attn, head>>

\* encoder layer: the in-projection of queries, keys and values
LayerInProj ==
  /\ pc = "positioned" /\ layer < cfg.n_layers
  /\ attn' = [x  |-> InProj(act.x, inp.T, inp.B, Sizes.d_model, layer),
              tw |-> InProj(act.tw, inp.T, inp.B, Sizes.d_model, layer),
              w  |-> <<>>, wtw |-> <<>>]
  /\ pc' = "projected"
  /\ UNCHANGED <<cfg, inp, act, mask, layer, head, out>>

\* encoder layer: the attention weights under the mask
LayerWeights ==
  /\ pc = "projected"
  /\ attn' = [attn EXCEPT
       !.w   = AttnWeights(attn.x, mask, inp.T, inp.B, Sizes.d_model, Sizes.n_heads),
       !.wtw = AttnWeights(attn.tw, mask, inp.T, inp.B, Sizes.d_model, Sizes.n_heads)]
  /\ pc' = "weighted"
  /\ UNCHANGED <<cfg, inp, act, mask, layer, head, out>>

\* encoder layer: attention output, residual, norm
LayerAttend ==
  /\ pc = "weighted"
  /\ act' = [x  |-> Attend(act.x, attn.x, attn.w, inp.T, inp.B, Sizes.d_model,
                           Sizes.n_heads, layer, cfg.training, inp.draw),
             tw |-> Attend(act.tw, attn.tw, attn.wtw, inp.T, inp.B, Sizes.d_model,
                           Sizes.n_heads, layer, cfg.training, inp.draw)]
  /\ pc' = "attended"
  /\ UNCHANGED <<cfg, inp, attn, mask, layer, head, out>>

\* encoder layer: feed-forward block, residual, norm
LayerFeedForward ==
  /\ pc = "attended"
  /\ act' = [x  |-> FeedForward(act.x, inp.T, inp.B, Sizes.d_model,
                                Sizes.feedforward_size, layer, cfg.training, inp.draw),
             tw |-> FeedForward(act.tw, inp.T, inp.B, Sizes.d_model,
                                Sizes.feedforward_size, layer, cfg.training, inp.draw)]
  /\ layer' = layer + 1
  /\ pc' = "positioned"
  /\ UNCHANGED <<cfg, inp, attn, mask, head, out>>

NoHead == [X_final |-> <<>>, diagnoses_enc |-> <<>>, combined |-> <<>>,
           last_point |-> <<>>]

\* return X.permute(1, 2, 0); X_final = self.relu(self.trans_dropout(trans_output))
ForwardEncoded ==
  /\ pc = "positioned" /\ layer = cfg.n_layers
  /\ LET B == inp.B
         T == inp.T
         d == Sizes.d_model
         f(Y) == ReluDropout3(Permute120(Y, B, d, T), B, d, T, 1, cfg.training, inp.draw)
     IN  head' = [x  |-> [NoHead EXCEPT !.X_final = f(act.x)],
                  tw |-> [NoHead EXCEPT !.X_final = f(act.tw)]]
  /\ pc' = "encoded"
  /\ UNCHANGED <<cfg, inp, act, attn, mask, layer, out>>

\* nn.Linear over the rows of an N x n matrix, to m features
LinearRows(layerId, M, N, n, m, bias) ==
  [r \in Range(N) |-> [o \in Range(m) |-> Linear(layerId, M[r], n, o, bias)]]

\* self.relu(self.main_dropout(M)) on an N x n matrix
ReluDropout2(M, N, n, site, training, draw) ==
  [r \in Range(N) |-> [o \in Range(n) |->
     ReLU(Dropout(M[r][o], r * n + o, site, training, draw))]]

\* diagnoses_enc = relu(main_dropout(bn_diagnosis_encoder(diagnosis_encoder(diagnoses))))
DiagnosesEnc(diagnoses, B, bn, training, draw) ==
  ReluDropout2(NormStage(bn, LinearRows(7, diagnoses, B, Sizes.D, Sizes.diagnosis_size, 0),
                         B, Sizes.diagnosis_size, training),
               B, Sizes.diagnosis_size, 2, training, draw)

ForwardDiagnoses ==
  /\ pc = "encoded"
  /\ LET bn == cfg.bn_diagnosis_encoder
         e  == DiagnosesEnc(inp.diagnoses, inp.B, bn, cfg.training, inp.draw)
     IN  IF NormFails(bn, inp.B, cfg.training)
         THEN /\ pc' = "error"
              /\ out' = Fail("batch norm of a single row")
              /\ UNCHANGED <<head, cfg>>
         ELSE /\ pc' = "diagnosed"
              /\ head' = [x  |-> [head.x EXCEPT !.diagnoses_enc = e],
                          tw |-> [head.tw EXCEPT !.diagnoses_enc = e]]
              /\ cfg' = [cfg EXCEPT !.bn_diagnosis_encoder =
                           NormUpdate(bn, LinearRows(7, inp.diagnoses, inp.B, Sizes.D,
                                                     Sizes.diagnosis_size, 0),
                                      inp.B, Sizes.diagnosis_size, cfg.training)]
              /\ out' = out
  /\ UNCHANGED <<inp, act, attn, mask, layer>>

\* the combined features with the static and diagnosis rows tiled
CombinedFeaturesTiled(flat, diagnoses_enc, X_final, B, T) ==
  LET K == T - Cut
  IN  Cat3(RepeatTiled(flat, B, K), Sizes.no_flat_features,
           RepeatTiled(diagnoses_enc, B, K), Sizes.diagnosis_size,
           View2(Permute021(SliceFrom(X_final, B, Sizes.d_model, T, Cut),
                            B, Sizes.d_model, K), B, K, Sizes.d_model, B * K),
           Sizes.d_model, B * K)

\* combined_features = cat((flat.repeat_interleave(T - 5, dim=0),
\*   diagnoses_enc.repeat_interleave(T - 5, dim=0),
\*   X_final[:, :, 5:].permute(0, 2, 1).contiguous().view(B * (T - 5), -1)), dim=1)
CombinedFeatures(flat, diagnoses_enc, X_final, B, T) ==
  LET K == T - Cut
  IN  Cat3(RepeatInterleave(flat, B, K), Sizes.no_flat_features,
           RepeatInterleave(diagnoses_enc, B, K), Sizes.diagnosis_size,
           View2(Permute021(SliceFrom(X_final, B, Sizes.d_model, T, Cut),
                            B, Sizes.d_model, K), B, K, Sizes.d_model, B * K),
           Sizes.d_model, B * K)

CombinedWidth == Sizes.no_flat_features + Sizes.diagnosis_size + Sizes.d_model

ForwardCombine ==
  /\ pc = "diagnosed"
  /\ LET K == inp.T - Cut
     IN  IF K < 0
         THEN \* repeat_interleave refuses a negative count
              /\ pc' = "error" /\ out' = Fail("negative repeats") /\ head' = head
         ELSE IF K = 0
         THEN \* view(0, -1) of an empty tensor cannot infer the -1
              /\ pc' = "error" /\ out' = Fail("ambiguous view") /\ head' = head
         ELSE /\ pc' = "combined"
              /\ out' = out
              /\ head' =
                   [x  |-> [head.x EXCEPT !.combined =
                              CombinedFeatures(inp.flat, head.x.diagnoses_enc,
                                               head.x.X_final, inp.B, inp.T)],
                    tw |-> [head.tw EXCEPT !.combined =
                              CombinedFeatures(inp.flat, head.tw.diagnoses_enc,
                                               head.tw.X_final, inp.B, inp.T)]]
  /\ UNCHANGED <<cfg, inp, act, attn, mask, layer>>

\* self.point(combined_features)
Point(combined, N) == LinearRows(10, combined, N, CombinedWidth, Sizes.last_linear_size, 0)

\* last_point = relu(main_dropout(bn_point_last(point(combined_features))))
LastPoint(combined, N, bn, training, draw) ==
  ReluDropout2(NormStage(bn, Point(combined, N), N, Sizes.last_linear_size, training),
               N, Sizes.last_linear_size, 3, training, draw)

ForwardPoint ==
  /\ pc = "combined"
  /\ LET N  == inp.B * (inp.T - Cut)
         bn == cfg.bn_point_last
     IN  IF NormFails(bn, N, cfg.training)
         THEN /\ pc' = "error"
              /\ out' = Fail("batch norm of a single row")
              /\ UNCHANGED <<head, cfg>>
         ELSE /\ pc' = "pointed"
              /\ out' = out
              /\ head' =
                   [x  |-> [head.x EXCEPT !.last_point =
                              LastPoint(head.x.combined, N, bn, cfg.training, inp.draw)],
                    tw |-> [head.tw EXCEPT !.last_point =
                              LastPoint(head.tw.combined, N, bn, cfg.training, inp.draw)]]
              /\ cfg' = [cfg EXCEPT !.bn_point_last =
                           NormUpdate(bn, Point(head.x.combined, N), N,
                                      Sizes.last_linear_size, cfg.training)]
  /\ UNCHANGED <<inp, act, attn, mask, layer>>

\* self.point_final(last_point): (B*(T-5)) x 1
PointFinal(last_point, N) ==
  LinearRows(9, last_point, N, Sizes.last_linear_size, 1, -300)

\* predictions, B x (T - 5)
Predictions(no_exp, last_point, B, K) ==
  LET raw == ViewBK(PointFinal(last_point, B * K), B, K)
  IN  [b \in Range(B) |-> [k \in Range(K) |-> OutputTransform(no_exp, raw[b][k])]]

ForwardPredict ==
  /\ pc = "pointed"
  /\ out' = [st   |-> "returned",
             val  |-> Predictions(cfg.no_exp, head.x.last_point, inp.B, inp.T - Cut),
             twin |-> Predictions(cfg.no_exp, head.tw.last_point, inp.B, inp.T - Cut)]
  /\ pc' = "done"
  /\ UNCHANGED <<cfg, inp, act, attn, mask, layer, head>>

-----------------------------------------------------------------------------
(* Properties of PositionalEncoding (under SpecPos) *)

\* the sinusoid the table is to hold at channel c and position pos
Sinusoid(c, pos, d) ==
  IF c % 2 = 0 THEN SinQ(Angle(pos, c \div 2, d)) ELSE CosQ(Angle(pos, c \div 2, d))

\* C9: for every d_model >= 1, even or odd, and every max_len >= 1,
\* constructing PositionalEncoding succeeds and yields a table of shape
\* 1 x d_model x max_len whose even channel 2i holds the sine and whose odd
\* channel 2i+1 holds the cosine of pos / 10000^(2i/d_model), at every
\* position 0..max_len-1
TableBuiltForEveryWidth ==
  pe.st # "unbuilt" =>
    /\ pe.st = "ok"
    /\ DOMAIN pe.val = Range(1)
    /\ DOMAIN pe.val[0] = Range(pe.d)
    /\ \A c \in Range(pe.d) :
         /\ DOMAIN pe.val[0][c] = Range(pe.len)
         /\ \A pos \in Range(pe.len) : pe.val[0][c][pos] = Sinusoid(c, pos, pe.d)

\* the timesteps of the last input of PositionalEncoding.forward
PosT == Cardinality(DOMAIN posIn[0][0])

\* C10: PositionalEncoding.forward is side-effect-free and deterministic:
\* after every call, whatever calls came before, the table is the one built
\* at construction, the caller's tensor X is as it was passed, and for
\* T <= max_len the result is X plus the first T columns of the table, the
\* same for every sequence of the batch
AddIsPure ==
  posCalls > 0 =>
    /\ pe = PositionalEncodingInit(pe.d, pe.len)
    /\ posX = posIn
    /\ PosT <= pe.len =>
         /\ posOut.st = "ok"
         /\ DOMAIN posOut.val = DOMAIN posIn
         /\ \A b \in DOMAIN posIn :
              /\ DOMAIN posOut.val[b] = Range(pe.d)
              /\ \A c \in Range(pe.d) :
                   /\ DOMAIN posOut.val[b][c] = Range(PosT)
                   /\ \A t \in Range(PosT) :
                        posOut.val[b][c][t] = posIn[b][c][t] + pe.val[0][c][t]

\* a second call, on a batch of two sequences as long as the table, whose
\* result differs from its input
AddIsPureWitness ==
  /\ posCalls = 2
  /\ posOut.st = "ok"
  /\ Cardinality(DOMAIN posIn) = 2
  /\ PosT = pe.len
  /\ pe.len > 1
  /\ posOut.val # posIn
  /\ posX = posIn

-----------------------------------------------------------------------------
(* Properties of Transformer.loss (under SpecLoss) *)

\* C6: with a loss_type outside {'mse', 'msle'} Transformer.loss raises and
\* returns no value; with 'msle' it returns what the MSLE metric returns and
\* with 'mse' what the MSE metric returns, each called with the same y_hat,
\* y, seq_lengths and sum_losses and with the mask converted to boolean
LossDispatch ==
  lossOut.st # "idle" =>
    LET a  == lossArgs
        bm == [type |-> IF a.device = "cuda" THEN "torch.cuda.BoolTensor"
                        ELSE "torch.BoolTensor",
               val  |-> [b \in DOMAIN a.mask |-> [t \in DOMAIN a.mask[b] |->
                           a.mask[b][t] # 0]]]
    IN  /\ a.loss_type \notin {"mse", "msle"} =>
             lossOut.st # "returned" /\ lossOut.st = "UnboundLocalError"
        /\ a.loss_type = "msle" =>
             lossOut = [st |-> "returned",
                        val |-> MSLELoss(a.y_hat, a.y, bm, a.seq_lengths, a.sum_losses)]
        /\ a.loss_type = "mse" =>
             lossOut = [st |-> "returned",
                        val |-> MSELoss(a.y_hat, a.y, bm, a.seq_lengths, a.sum_losses)]

\* a call with loss_type 'rmse' on a batch of two sequences has raised
LossDispatchWitness ==
  /\ lossArgs.loss_type = "rmse"
  /\ lossOut.st = "UnboundLocalError"
  /\ Cardinality(DOMAIN lossArgs.y_hat) = 2

\* the entries of the last loss call, and those its mask marks valid
LossEntries ==
  {<<b, t>> : b \in DOMAIN lossArgs.y_hat, t \in DOMAIN lossArgs.y_hat[0]}

ValidEntries == {p \in LossEntries : lossArgs.mask[p[1]][p[2]] # 0}

\* the per-element error of the last loss call at entry p
ErrorAt(p) ==
  ElemErr(lossArgs.loss_type, lossArgs.y_hat[p[1]][p[2]], lossArgs.y[p[1]][p[2]])

RECURSIVE ErrorSum(_)
\* the sum of the per-element errors over a set of entries
ErrorSum(S) ==
  IF S = {} THEN 0
  ELSE LET p == CHOOSE q \in S : TRUE IN ErrorAt(p) + ErrorSum(S \ {p})

\* the valid entries of sequence b
ValidOf(b) == {p \in ValidEntries : p[1] = b}

\* the mean over the sequences of each one's masked error sum over its own
\* valid length
PerSequenceMean ==
  LET B == Cardinality(DOMAIN lossArgs.y_hat)
      m == RatSumTo([b \in Range(B) |->
                       Rat(ErrorSum(ValidOf(b)), Cardinality(ValidOf(b)))], B)
  IN  Rat(m[1], m[2] * B)

-----------------------------------------------------------------------------
(* Properties of Transformer (under Spec) *)

\* a forward call has been made
Called == pc \notin {"idle", "ready"}

\* the retained timesteps of the call
Retained == Range(inp.T - Cut)

\* C1: forward is causal end to end, through the batch-normalisation stage
\* of the fusion head too: two batches that agree on the timesteps 0..t of
\* every sequence, and on diagnoses and static features, give the same
\* prediction at (b, t) for every retained t.  Stated for the models built
\* with batchnorm = 'default' (nn.BatchNorm1d on both stages).
ForwardCausal ==
  (pc = "done" /\ cfg.batchnorm = "default") =>
    \A b \in Range(inp.B), k \in Retained :
      (k + Cut < inp.tp) => out.val[b][k] = out.twin[b][k]

\* C2: _causal_mask(T) is T x T with 0 at (i, j) for j <= i and -infinity for
\* j > i, for every T >= 1; it is computed from the T of the call and is the
\* mask of every encoder layer, whose attention weights on the keys j > i
\* are exactly 0 (and not all 0 on the keys j <= i)
CausalMaskLowerTriangular ==
  pc \in {"positioned", "projected", "weighted", "attended"} =>
    /\ inp.T >= 1
    /\ DOMAIN mask = Range(inp.T)
    /\ \A i \in Range(inp.T) :
         /\ DOMAIN mask[i] = Range(inp.T)
         /\ \A j \in Range(inp.T) : mask[i][j] = IF j <= i THEN 0 ELSE NegInf
         /\ {j \in Range(inp.T) : mask[i][j] # NegInf} = 0 .. i
    /\ pc = "weighted" =>
         \A b \in Range(inp.B), h \in Range(Sizes.n_heads), i \in Range(inp.T) :
           /\ \A j \in Range(inp.T) : j > i => attn.w[b][h][i][j] = 0
           /\ \E j \in 0 .. i : attn.w[b][h][i][j] > 0

\* the second encoder layer of a call with T = MaxT has its attention
\* weights, under a mask that forbids key 1 to query 0 and allows the reverse
CausalMaskWitness ==
  /\ pc = "weighted"
  /\ layer = 1
  /\ inp.T = MaxT
  /\ mask[0][1] = NegInf
  /\ mask[1][0] = 0
  /\ \E j \in 0 .. 1 : attn.w[0][0][1][j] > 0

\* the raw scores of the call, B x (T - 5), and what the clamp receives
RawScore(b, k) ==
  PointFinal(head.x.last_point, inp.B * (inp.T - Cut))[b * (inp.T - Cut) + k][0]

Unclamped(b, k) == IF cfg.no_exp THEN RawScore(b, k) ELSE ExpQ(RawScore(b, k))

\* C3: for both values of no_exp every prediction lies in [1/48, 100]: the
\* raw score (no_exp) or its exponential (otherwise) is clamped; a value
\* below 1/48 becomes exactly 1/48, a value above 100 exactly 100, and a
\* value inside the range is unchanged
PredictionsClamped ==
  pc = "done" =>
    \A b \in Range(inp.B), k \in Retained :
      LET v == Unclamped(b, k)
          p == out.val[b][k]
      IN  /\ p >= 1 /\ p <= 100 * Q
          /\ v < 1 => p = 1
          /\ v > 100 * Q => p = 100 * Q
          /\ (v >= 1 /\ v <= 100 * Q) => p = v

\* a call in exponential mode whose batch holds a value below the range, one
\* inside it and one above it
PredictionsClampedWitness ==
  /\ pc = "done"
  /\ ~cfg.no_exp
  /\ \E b \in Range(inp.B), k \in Retained : Unclamped(b, k) < 1 /\ out.val[b][k] = 1
  /\ \E b \in Range(inp.B), k \in Retained :
       /\ Unclamped(b, k) > 1 /\ Unclamped(b, k) < 100 * Q
       /\ out.val[b][k] = Unclamped(b, k)
  /\ \E b \in Range(inp.B), k \in Retained :
       Unclamped(b, k) > 100 * Q /\ out.val[b][k] = 100 * Q

\* C4: forward returns predictions of shape B x (T - 5); row b*(T-5)+k of
\* the concatenation is [static features of b | diagnosis encoding of b |
\* encoder output of b at timestep k+5], for every b in 0..B-1 and k in
\* 0..T-6, and view(B, T-5) maps the score of that row to entry (b, k)
RowsAligned ==
  pc = "done" =>
    LET K  == inp.T - Cut
        nf == Sizes.no_flat_features
        nd == Sizes.diagnosis_size
    IN  /\ DOMAIN out.val = Range(inp.B)
        /\ DOMAIN head.x.combined = Range(inp.B * K)
        /\ DOMAIN head.x.last_point = Range(inp.B * K)
        /\ \A b \in Range(inp.B) :
             /\ DOMAIN out.val[b] = Range(K)
             /\ \A k \in Range(K) :
                  LET row == head.x.combined[b * K + k]
                  IN  /\ DOMAIN row = Range(nf + nd + Sizes.d_model)
                      /\ \A f \in Range(nf) : row[f] = inp.flat[b][f]
                      /\ \A g \in Range(nd) : row[nf + g] = head.x.diagnoses_enc[b][g]
                      /\ \A c \in Range(Sizes.d_model) :
                           row[nf + nd + c] = head.x.X_final[b][c][k + Cut]
                      /\ out.val[b][k] = OutputTransform(cfg.no_exp, RawScore(b, k))

\* a call on two sequences of seven timesteps, whose static features and
\* whose encoder outputs at the two retained timesteps differ, has returned
\* a 2 x 2 tensor
RowsAlignedWitness ==
  /\ pc = "done"
  /\ inp.B = 2 /\ inp.T = 7
  /\ DOMAIN out.val = Range(2) /\ DOMAIN out.val[1] = Range(2)
  /\ inp.flat[0] # inp.flat[1]
  /\ head.x.diagnoses_enc[0] # head.x.diagnoses_enc[1]
  /\ \E c \in Range(Sizes.d_model) : head.x.X_final[0][c][5] # head.x.X_final[0][c][6]
  /\ \E c \in Range(Sizes.d_model) : head.x.X_final[0][c][5] # head.x.X_final[1][c][5]

\* C5: when T exceeds the positional table's max_len the encoder's forward
\* fails with a size error: the call gets no further than the positional
\* addition and returns no output
TooLongFails ==
  (Called /\ inp.T > cfg.pos.len) =>
    /\ pc \in {"embedded", "error"}
    /\ out.st # "returned"
    /\ pc = "error" => out = Fail("size mismatch")

\* a call on a batch one timestep longer than the table has failed
TooLongFailsWitness ==
  /\ pc = "error"
  /\ inp.T = cfg.pos.len + 1
  /\ out = Fail("size mismatch")

\* C7: the batchnorm string selects the two normalisation stages: 'none'
\* none on both; 'mybatchnorm' batch normalisation with momentum 0.1 on both;
\* 'low_momentum' with momentum 0.01 on both; 'default' the standard batch
\* normalisation on both; 'pointonly' none on the diagnosis stage and
\* momentum 0.1 on the point-wise stage; any other string is accepted and
\* gives none on both
BatchnormDispatch ==
  pc # "idle" =>
    LET s    == cfg.batchnorm
        dg   == <<cfg.bn_diagnosis_encoder.kind, cfg.bn_diagnosis_encoder.momentum>>
        pt   == <<cfg.bn_point_last.kind, cfg.bn_point_last.momentum>>
        none == <<"EmptyModule", 0>>
    IN  /\ s = "none" => dg = none /\ pt = none
        /\ s = "mybatchnorm" => dg = <<"MyBatchNorm1d", 100>> /\ pt = <<"MyBatchNorm1d", 100>>
        /\ s = "low_momentum" => dg = <<"MyBatchNorm1d", 10>> /\ pt = <<"MyBatchNorm1d", 10>>
        /\ s = "default" => dg = <<"BatchNorm1d", 100>> /\ pt = <<"BatchNorm1d", 100>>
        /\ s = "pointonly" => dg = none /\ pt = <<"MyBatchNorm1d", 100>>
        /\ s \notin {"none", "mybatchnorm", "low_momentum", "default", "pointonly"} =>
             dg = none /\ pt = none
        /\ pc = "error" => Called /\ out.st = "error"

\* a model built with 'pointonly' has made a call in which only the
\* point-wise stage normalised
BatchnormDispatchWitness ==
  /\ pc = "done"
  /\ cfg.batchnorm = "pointonly"
  /\ cfg.bn_diagnosis_encoder.kind = "EmptyModule"
  /\ cfg.bn_point_last.kind = "MyBatchNorm1d"
  /\ cfg.bn_point_last.running_mean # MyBatchNorm1d(Sizes.last_linear_size, 100).running_mean

-----------------------------------------------------------------------------
(* Specifications *)

FwdIdle ==
  /\ pc = "idle" /\ cfg = <<>> /\ inp = <<>> /\ act = <<>> /\ attn = <<>>
  /\ mask = <<>> /\ layer = 0 /\ head = <<>> /\ out = [st |-> "idle", val |-> <<>>, twin |-> <<>>]

\* PositionalEncoding: construction, then forward calls
PosInit == PosIdle /\ LossIdle /\ FwdIdle

PosNext ==
  \/ PEConstruct /\ UNCHANGED <<lossVars, fwdVars>>
  \/ PEForward /\ UNCHANGED <<lossVars, fwdVars>>

SpecPos == PosInit /\ [][PosNext]_vars

\* Transformer.loss: calls with arbitrary arguments
LossInit == PosIdle /\ LossIdle /\ FwdIdle

LossNext ==
  \/ LossCall /\ UNCHANGED <<posVars, fwdVars>>
  \/ LossReturn /\ UNCHANGED <<posVars, fwdVars>>

SpecLoss == LossInit /\ [][LossNext]_vars

\* Transformer: construction, then one forward call
Init == PosIdle /\ LossIdle /\ FwdIdle

Next ==
  \/ Construct /\ UNCHANGED <<posVars, lossVars>>
  \/ SetMode /\ UNCHANGED <<posVars, lossVars>>
  \/ ForwardEmbed /\ UNCHANGED <<posVars, lossVars>>
  \/ ForwardPos /\ UNCHANGED <<posVars, lossVars>>
  \/ LayerInProj /\ UNCHANGED <<posVars, lossVars>>
  \/ LayerWeights /\ UNCHANGED <<posVars, lossVars>>
  \/ LayerAttend /\ UNCHANGED <<posVars, lossVars>>
  \/ LayerFeedForward /\ UNCHANGED <<posVars, lossVars>>
  \/ ForwardEncoded /\ UNCHANGED <<posVars, lossVars>>
  \/ ForwardDiagnoses /\ UNCHANGED <<posVars, lossVars>>
  \/ ForwardCombine /\ UNCHANGED <<posVars, lossVars>>
  \/ ForwardPoint /\ UNCHANGED <<posVars, lossVars>>
  \/ ForwardPredict /\ UNCHANGED <<posVars, lossVars>>

Spec == Init /\ [][Next]_vars

=============================================================================
